---- MODULE Spec2Model ----
(***************************************************************************)
(* Model of the forecast-window engine of hf_weather_api (src/app.py):     *)
(* the two window handlers calculate_hfi (/wxapi/hfi-detail) and           *)
(* hfi_summary (/wxapi/hfi-summary).                                       *)
(*                                                                         *)
(* Numbers.  Python floats are modelled in exact fixed point:              *)
(*   - a coerced field value is held in hundredths ("centi");              *)
(*   - temperatures in Fahrenheit are held in 1/500 degree, which makes    *)
(*     (K - 273.15) * 9/5 + 32 exact;                                      *)
(*   - wind speed in mph is held in units of 1e-7 mph, which makes the     *)
(*     factor 2.23694 exact on a wind magnitude in hundredths of m/s.      *)
(* Strings read from the store are sequences of one-character strings so   *)
(* that float() can be modelled as a parser.                               *)
(***************************************************************************)
EXTENDS Integers, Sequences, FiniteSets, TLC

VARIABLES
    pc,                  \* position of the handler: "start", "loop", "fetched", "done"
    path,                \* which handler runs: "detail" or "summary"
    args,                \* request.args: the query parameters that are present
    now,                 \* datetime.utcnow(): [hour, minute]
    store,               \* the Valkey hashes: key -> (field -> string)
    geohash,             \* local geohash
    unit,                \* local unit (calculate_hfi only)
    first_forecast_hour, \* local first_forecast_hour
    intervals,           \* local intervals
    idx,                 \* 1-based position of the for loop over intervals
    interval,            \* loop variable interval
    forecast_data,       \* local forecast_data, after coercion
    results,             \* local results (calculate_hfi)
    high_temp_f,         \* local high_temp_f (hfi_summary)
    total_wind_mph,      \* local total_wind_mph (hfi_summary)
    total_hfi,           \* local total_hfi (hfi_summary)
    valid_intervals,     \* local valid_intervals (hfi_summary)
    hfi_calls,           \* every invocation of get_hfi made by the request
    store_reads,         \* the key of every hgetall made by the request, in order
    response             \* the HTTP response, once the handler returned

vars == <<pc, path, args, now, store, geohash, unit, first_forecast_hour,
          intervals, idx, interval, forecast_data, results, high_temp_f,
          total_wind_mph, total_hfi, valid_intervals, hfi_calls, store_reads,
          response>>

(***************************************************************************)
(* Program constants                                                       *)
(***************************************************************************)
CadenceHours == 6
DayHours == 24
DetailWindowCount == 8
SummaryWindowCount == 4

(***************************************************************************)
(* Bounds of the model                                                     *)
(***************************************************************************)
\* a detail request finds at most this many of its eight keys in the store
MaxDetailKeys == 1
\* a summary request finds at most this many of its four keys in the store
MaxSummaryKeys == 3
\* the index formula returns a value in 1..MaxHfi (hundredths)
MaxHfi == 1

(***************************************************************************)
(* Generic helpers                                                         *)
(***************************************************************************)
\* Python's sequence filter, keeping order
RECURSIVE SelectInOrder(_, _)
SelectInOrder(s, keep) ==
    IF s = <<>> THEN <<>>
    ELSE IF Head(s) \in keep
         THEN <<Head(s)>> \o SelectInOrder(Tail(s), keep)
         ELSE SelectInOrder(Tail(s), keep)

\* floor of the square root, by bisection: lo * lo <= n < hi * hi
RECURSIVE SqrtBetween(_, _, _)
SqrtBetween(n, lo, hi) ==
    IF hi - lo <= 1 THEN lo
    ELSE LET mid == (lo + hi) \div 2
         IN  IF mid * mid <= n THEN SqrtBetween(n, mid, hi) ELSE SqrtBetween(n, lo, mid)

ISqrt(n) == SqrtBetween(n, 0, 46341)

\* round(a / b) to the nearest integer, ties to even, for b > 0 (Python's
\* round of the exact quotient; the binary float may break a tie otherwise)
RoundDiv(a, b) ==
    LET q == a \div b
        r == a % b
    IN  IF 2 * r < b THEN q
        ELSE IF 2 * r > b THEN q + 1
        ELSE IF q % 2 = 0 THEN q ELSE q + 1

(***************************************************************************)
(* str(int) and the f-strings of the handlers                              *)
(***************************************************************************)
DigitChar(d) ==
    CASE d = 0 -> "0" [] d = 1 -> "1" [] d = 2 -> "2" [] d = 3 -> "3"
      [] d = 4 -> "4" [] d = 5 -> "5" [] d = 6 -> "6" [] d = 7 -> "7"
      [] d = 8 -> "8" [] d = 9 -> "9"

RECURSIVE IntToStr(_)
IntToStr(n) ==
    IF n < 10 THEN DigitChar(n)
    ELSE IntToStr(n \div 10) \o DigitChar(n % 10)

\* f"{interval_hours}h"
IntervalStr(interval_hours) == IntToStr(interval_hours) \o "h"

\* f"{interval}:{geohash}"
Key(iv, gh) == iv \o ":" \o gh

(***************************************************************************)
(* Interval scheduler                                                      *)
(***************************************************************************)
\* hours_since_00z = now.hour + now.minute / 60.0, in units of 1/6000 hour
\* (one minute is 100 units, 5.99 hours are 35940 units)
HoursSince00z(t) == t.hour * 6000 + t.minute * 100

\* the anchor with + 6 in place of + 5.99: a boundary rounds up to the next one
FirstForecastHourStrict(t) ==
    LET raw == ((HoursSince00z(t) + 36000) \div (CadenceHours * 6000)) * CadenceHours
    IN  IF raw >= DayHours THEN DayHours ELSE raw

\* the anchor wrapped into the day in place of the clamp
FirstForecastHourWrap(t) ==
    (((HoursSince00z(t) + 35940) \div (CadenceHours * 6000)) * CadenceHours) % DayHours

\* int((hours_since_00z + 5.99) // 6) * 6, then the clamp to 24.  The sum is
\* never within 0.006 of a multiple of 6 (now.second is not read), so the
\* float floor division and this exact one agree at every minute of the day.
FirstForecastHour(t) ==
    LET raw == ((HoursSince00z(t) + 35940) \div (CadenceHours * 6000)) * CadenceHours
    IN  IF raw >= DayHours THEN DayHours ELSE raw

\* the schedule with range(count - 1)
MakeIntervalsShort(first, count) ==
    [i \in 1..(count - 1) |-> IntervalStr(first + ((i - 1) * CadenceHours))]

\* for i in range(count): intervals.append(f"{first + i * 6}h")
MakeIntervals(first, count) ==
    [i \in 1..count |-> IntervalStr(first + ((i - 1) * CadenceHours))]

WindowCount(p) == IF p = "detail" THEN DetailWindowCount ELSE SummaryWindowCount

(***************************************************************************)
(* float(): the coercion of a field value read from the store              *)
(***************************************************************************)
Digits == {"0", "1", "2", "3", "4", "5", "6", "7", "8", "9"}

DigitVal(c) ==
    CASE c = "0" -> 0 [] c = "1" -> 1 [] c = "2" -> 2 [] c = "3" -> 3
      [] c = "4" -> 4 [] c = "5" -> 5 [] c = "6" -> 6 [] c = "7" -> 7
      [] c = "8" -> 8 [] c = "9" -> 9

RECURSIVE DigitsToInt(_)
DigitsToInt(s) ==
    IF s = <<>> THEN 0
    ELSE DigitsToInt(SubSeq(s, 1, Len(s) - 1)) * 10 + DigitVal(s[Len(s)])

Unsigned(s) == IF s # <<>> /\ Head(s) \in {"+", "-"} THEN Tail(s) ELSE s

\* float(text) succeeds.  Decimal literals [sign] digits [. digits] only: the
\* texts the model draws hold no exponent, blank, underscore, "inf" or "nan".
FloatParses(s) ==
    LET b == Unsigned(s)
    IN  /\ b # <<>>
        /\ \A i \in DOMAIN b : b[i] \in Digits \cup {"."}
        /\ Cardinality({i \in DOMAIN b : b[i] = "."}) <= 1
        /\ \E i \in DOMAIN b : b[i] \in Digits

\* float(text), in hundredths (the texts drawn hold at most two decimals)
FloatCenti(s) ==
    LET b    == Unsigned(s)
        dots == {i \in DOMAIN b : b[i] = "."}
        dot  == IF dots = {} THEN Len(b) + 1 ELSE CHOOSE i \in dots : TRUE
        ip   == SubSeq(b, 1, dot - 1)
        fp   == SubSeq(b, dot + 1, Len(b)) \o <<"0", "0">>
        mag  == DigitsToInt(ip) * 100 + DigitsToInt(SubSeq(fp, 1, 2))
    IN  IF s # <<>> /\ Head(s) = "-" THEN 0 - mag ELSE mag

\* A Python value held in forecast_data or returned by dict.get
FloatValue(c) == [type |-> "float", centi |-> c, text |-> <<>>]
StrValue(s) == [type |-> "str", centi |-> 0, text |-> s]
None == [type |-> "None", centi |-> 0, text |-> <<>>]

\* try: float(x)  except (ValueError, TypeError): keep the string
Coerce(raw) == IF FloatParses(raw) THEN FloatValue(FloatCenti(raw)) ELSE StrValue(raw)

\* for param in forecast_data: forecast_data[param] = float(...)
CoerceAll(data) == [f \in DOMAIN data |-> Coerce(data[f])]

\* dict.get(key): None when the key is absent
DictGet(d, k) == IF k \in DOMAIN d THEN d[k] ELSE None

\* valkey_client.hgetall(key): the hash, or the empty mapping on a miss
EmptyMap == [k \in {} |-> <<>>]
HGetAll(s, key) == IF key \in DOMAIN s THEN s[key] ELSE EmptyMap

\* request.args.get(name, default)
ArgsGet(a, name, default) == IF name \in DOMAIN a THEN a[name] ELSE default

(***************************************************************************)
(* Validation of the five required fields                                  *)
(***************************************************************************)
RequiredFields == <<"2t", "2d", "tp", "10u", "10v">>

ParamName(f) ==
    CASE f = "2t"  -> "2t (temperature)"
      [] f = "2d"  -> "2d (dewpoint)"
      [] f = "tp"  -> "tp (precipitation)"
      [] f = "10u" -> "10u (wind u component)"
      [] f = "10v" -> "10v (wind v component)"

\* t, d, p, u, v = forecast_data.get('2t'), ...
Required(data) == [i \in 1..5 |-> DictGet(data, RequiredFields[i])]

\* None in (t, d, p, u, v)
AnyMissing(five) == \E i \in 1..5 : five[i] = None

\* the missing names without the check of v
MissingParamsNoWindV(five) ==
    LET missing == SelectInOrder(RequiredFields,
                                 {RequiredFields[i] : i \in {j \in 1..4 : five[j] = None}})
    IN  [k \in DOMAIN missing |-> ParamName(missing[k])]

\* missing_params: one name per required value that is None, in field order
MissingParams(five) ==
    LET missing == SelectInOrder(RequiredFields,
                                 {RequiredFields[i] : i \in {j \in 1..5 : five[j] = None}})
    IN  [k \in DOMAIN missing |-> ParamName(missing[k])]

\* ", ".join(names)
RECURSIVE JoinComma(_)
JoinComma(names) ==
    IF names = <<>> THEN ""
    ELSE IF Len(names) = 1 THEN names[1]
    ELSE names[1] \o ", " \o JoinComma(Tail(names))

NoDataMessage(iv) == "No forecast data found for interval: " \o iv
MissingMessage(five) == "Missing parameters: " \o JoinComma(MissingParams(five))
ErrorMessage(e) == "Error calculating HFI: " \o e

(***************************************************************************)
(* The index formula and the derived metrics                               *)
(***************************************************************************)
HfiValues == 1..MaxHfi

\* get_hfi(t, d, p, u, v): opaque; it returns a number or raises
GetHfiOutcomes(t, d, p, u, v) ==
    {[raised |-> TRUE, value |-> 0, error |-> "get_hfi failed"]}
    \cup {[raised |-> FALSE, value |-> h, error |-> ""] : h \in HfiValues}

SubTypeError == "unsupported operand type(s) for -: 'str' and 'float'"
PowTypeError == "unsupported operand type(s) for ** or pow(): 'str' and 'int'"

\* (k - 273.15) * 9/5 + 32, in 1/500 degree F
TempF(k) == (k.centi - 27315) * 9 + 16000

\* ((u**2 + v**2)**0.5) * 2.23694, in 1e-7 mph
WindSpeedMph(u, v) == ISqrt(u.centi * u.centi + v.centi * v.centi) * 223694

\* round(x, 1) of a temperature, in tenths
RoundTemp(x) == RoundDiv(x, 50)
\* round(x, 1) of a wind speed, in tenths
RoundWind(x) == RoundDiv(x, 1000000)

(***************************************************************************)
(* Inputs: the request, the clock and the store                            *)
(***************************************************************************)
Geohash == "u4pruydqqvj"

\* the value request.args.get returns for an absent parameter (None, falsy)
NoValue == ""

\* the query strings drawn: no geohash, geohash alone, geohash and a unit
RequestArgs ==
    { [k \in {} |-> NoValue],
      [k \in {"geohash"} |-> Geohash],
      [k \in {"geohash", "unit"} |-> IF k = "geohash" THEN Geohash ELSE "F"] }

TimesOfDay == [hour : 0..23, minute : 0..59]

\* the clock readings drawn for a request of /wxapi/hfi-detail
DetailTimes == { [hour |-> 12, minute |-> 30], [hour |-> 23, minute |-> 59] }

\* the clock readings drawn for a request of /wxapi/hfi-summary
SummaryTimes == { [hour |-> 0, minute |-> 0], [hour |-> 18, minute |-> 1] }

T280 == <<"2", "8", "0">>
T27315 == <<"2", "7", "3", ".", "1", "5">>
T3005 == <<"3", "0", "0", ".", "5">>
T0 == <<"0">>
T3 == <<"3">>
T4 == <<"4">>
TNeg6 == <<"-", "6">>
TText == <<"n", "/", "a">>

Complete == [f \in {"2t", "2d", "tp", "10u", "10v"} |->
                CASE f = "2t" -> T280 [] f = "2d" -> T27315 [] f = "tp" -> T0
                  [] f = "10u" -> T3 [] f = "10v" -> T4]
Warm == [f \in {"2t", "2d", "tp", "10u", "10v", "sp"} |->
                CASE f = "2t" -> T3005 [] f = "2d" -> T280 [] f = "tp" -> T3
                  [] f = "10u" -> TNeg6 [] f = "10v" -> T0 [] f = "sp" -> TText]
NoTemp == [f \in {"2d", "tp", "10u", "10v"} |-> Complete[f]]
NoPrecipWindV == [f \in {"2t", "2d", "10u"} |-> IF f = "2d" THEN TText ELSE Complete[f]]
OnlyPressure == [f \in {"sp"} |-> T280]
TextPrecip == [f \in DOMAIN Complete |-> IF f = "tp" THEN TText ELSE Complete[f]]
TextTemp == [f \in DOMAIN Complete |-> IF f = "2t" THEN TText ELSE Complete[f]]
TextWindU == [f \in DOMAIN Complete |-> IF f = "10u" THEN <<>> ELSE Complete[f]]

\* the hashes drawn for a key of the store (a stored hash is never empty)
DetailPool ==
    {Complete, NoTemp, NoPrecipWindV, OnlyPressure, TextPrecip, TextTemp, TextWindU}
SummaryPool ==
    {Complete, Warm, NoTemp, NoPrecipWindV, OnlyPressure, TextPrecip, TextTemp}

\* the keys a request made at time t reads
WindowKeys(t, count) ==
    {Key(MakeIntervals(FirstForecastHour(t), count)[i], Geohash) : i \in 1..count}

\* the store contents drawn: at most max_keys hashes, under keys the
\* request reads (a hash under any other key is never read)
Stores(t, count, pool, max_keys) ==
    UNION { [ks -> pool] :
              ks \in {k \in SUBSET WindowKeys(t, count) : Cardinality(k) <= max_keys} }

NegInf == [neg_inf |-> TRUE, f500 |-> 0]
NoResponse == [status |-> 0, body |-> <<>>]

InitLocals ==
    /\ pc = "start"
    /\ geohash = NoValue
    /\ unit = NoValue
    /\ first_forecast_hour = 0
    /\ intervals = <<>>
    /\ idx = 0
    /\ interval = ""
    /\ forecast_data = EmptyMap
    /\ results = <<>>
    /\ high_temp_f = NegInf
    /\ total_wind_mph = 0
    /\ total_hfi = 0
    /\ valid_intervals = 0
    /\ hfi_calls = <<>>
    /\ store_reads = <<>>
    /\ response = NoResponse

\* a request of either handler at any time of day, on an empty store
InitSchedule ==
    /\ path \in {"detail", "summary"}
    /\ args = [k \in {"geohash"} |-> Geohash]
    /\ now \in TimesOfDay
    /\ store = EmptyMap
    /\ InitLocals

InitDetail ==
    /\ path = "detail"
    /\ args \in RequestArgs
    /\ now \in DetailTimes
    /\ store \in Stores(now, DetailWindowCount, DetailPool, MaxDetailKeys)
    /\ InitLocals

InitSummary ==
    /\ path = "summary"
    /\ args \in RequestArgs
    /\ now \in SummaryTimes
    /\ store \in Stores(now, SummaryWindowCount, SummaryPool, MaxSummaryKeys)
    /\ InitLocals

Init == InitDetail \/ InitSummary

(***************************************************************************)
(* Responses                                                               *)
(***************************************************************************)
BadRequest == [status |-> 400, body |-> [error |-> "Geohash parameter is required"]]
Unavailable ==
    [status |-> 503,
     body |-> [error |-> "Database connection unavailable",
               message |-> "The forecast database is currently unavailable. Please try again later."]]
InternalError == [status |-> 500, body |-> [error |-> "Internal server error"]]
NotFound(gh) ==
    [status |-> 404,
     body |-> [error |-> "No valid forecast data found for the specified geohash",
               geohash |-> gh]]

(***************************************************************************)
(* Both handlers: parameters, ping, schedule (lines 215-259, 365-397)      *)
(***************************************************************************)
Return(r) ==
    /\ response' = r
    /\ pc' = "done"

\* the handler up to the first loop iteration; the store answers the ping or not
Start(p, ping_ok) ==
    /\ pc = "start"
    /\ path = p
    /\ geohash' = ArgsGet(args, "geohash", NoValue)
    /\ unit' = IF p = "detail" THEN ArgsGet(args, "unit", "K") ELSE unit
    /\ IF geohash' = NoValue
       THEN /\ Return(BadRequest)
            /\ UNCHANGED <<first_forecast_hour, intervals, idx>>
       ELSE IF ~ping_ok
       THEN /\ Return(Unavailable)
            /\ UNCHANGED <<first_forecast_hour, intervals, idx>>
       ELSE /\ first_forecast_hour' = FirstForecastHour(now)
            /\ intervals' = MakeIntervals(first_forecast_hour', WindowCount(p))
            /\ idx' = 1
            /\ pc' = "loop"
            /\ UNCHANGED response
    /\ UNCHANGED <<path, args, now, store, store_reads, interval, forecast_data, results,
                   high_temp_f, total_wind_mph, total_hfi, valid_intervals, hfi_calls>>

DetailStart == \E ping_ok \in BOOLEAN : Start("detail", ping_ok)
SummaryStart == \E ping_ok \in BOOLEAN : Start("summary", ping_ok)

(***************************************************************************)
(* calculate_hfi: the loop over the intervals (lines 261-348)              *)
(***************************************************************************)
NoDataEntry(iv) ==
    [interval |-> iv, available |-> FALSE, message |-> NoDataMessage(iv)]
MissingEntry(iv, five) ==
    [interval |-> iv, available |-> FALSE, message |-> MissingMessage(five)]
ErrorEntry(iv, e) ==
    [interval |-> iv, available |-> FALSE, message |-> ErrorMessage(e)]
AvailableEntry(iv, hfi, t, d, u, v) ==
    [interval |-> iv, available |-> TRUE, hfi |-> hfi,
     temperature_f |-> RoundTemp(TempF(t)),
     dewpoint_f |-> RoundTemp(TempF(d)),
     wind_mph |-> RoundWind(WindSpeedMph(u, v))]

\* a call of get_hfi as the formula sees it: its five positional arguments
\* and the unit it is handed (NoValue: the call names no unit)
HfiCall(iv, call_args, call_unit, out) ==
    [interval |-> iv, args |-> call_args, unit |-> call_unit, raised |-> out.raised]

\* the body of the inner try once no parameter is missing (lines 312-342)
DetailComputed(iv, five, out) ==
    LET t == five[1]
        d == five[2]
        u == five[4]
        v == five[5]
    IN  IF out.raised THEN ErrorEntry(iv, out.error)
        ELSE IF t.type = "str" \/ d.type = "str" THEN ErrorEntry(iv, SubTypeError)
        ELSE IF u.type = "str" \/ v.type = "str" THEN ErrorEntry(iv, PowTypeError)
        ELSE AvailableEntry(iv, out.value, t, d, u, v)

\* for interval in intervals: key, hgetall, the empty check, the coercion
DetailFetch ==
    /\ pc = "loop"
    /\ path = "detail"
    /\ idx <= Len(intervals)
    /\ interval' = intervals[idx]
    /\ store_reads' = Append(store_reads, Key(interval', geohash))
    /\ LET data == HGetAll(store, Key(interval', geohash))
       IN  IF DOMAIN data = {}
           THEN /\ results' = Append(results, NoDataEntry(interval'))
                /\ idx' = idx + 1
                /\ UNCHANGED <<pc, forecast_data>>
           ELSE /\ forecast_data' = CoerceAll(data)
                /\ pc' = "fetched"
                /\ UNCHANGED <<results, idx>>
    /\ UNCHANGED <<path, args, now, store, geohash, unit, first_forecast_hour,
                   intervals, high_temp_f, total_wind_mph, total_hfi,
                   valid_intervals, hfi_calls, response>>

\* the inner try: validation, get_hfi, the conversions, the entry
DetailEvaluate ==
    /\ pc = "fetched"
    /\ path = "detail"
    /\ LET five == Required(forecast_data)
       IN  IF AnyMissing(five)
           THEN /\ results' = Append(results, MissingEntry(interval, five))
                /\ UNCHANGED hfi_calls
           ELSE \E out \in GetHfiOutcomes(five[1], five[2], five[3], five[4], five[5]) :
                /\ hfi_calls' = Append(hfi_calls, HfiCall(interval, five, NoValue, out))
                /\ results' = Append(results, DetailComputed(interval, five, out))
    /\ idx' = idx + 1
    /\ pc' = "loop"
    /\ UNCHANGED <<path, args, now, store, store_reads, geohash, unit, first_forecast_hour,
                   intervals, interval, forecast_data, high_temp_f, total_wind_mph,
                   total_hfi, valid_intervals, response>>

\* return jsonify({'geohash': geohash, 'intervals': results})
DetailReturn ==
    /\ pc = "loop"
    /\ path = "detail"
    /\ idx > Len(intervals)
    /\ Return([status |-> 200, body |-> [geohash |-> geohash, intervals |-> results]])
    /\ UNCHANGED <<path, args, now, store, store_reads, geohash, unit, first_forecast_hour,
                   intervals, idx, interval, forecast_data, results, high_temp_f,
                   total_wind_mph, total_hfi, valid_intervals, hfi_calls>>

(***************************************************************************)
(* hfi_summary: the loop over the intervals (lines 399-469)                *)
(***************************************************************************)
\* max(high_temp_f, temp_f)
MaxTemp(high, temp) ==
    IF high.neg_inf \/ temp > high.f500
    THEN [neg_inf |-> FALSE, f500 |-> temp]
    ELSE high

Summary(gh, high, wind, hfi, n) ==
    [status |-> 200,
     body |-> [geohash |-> gh,
               high_temperature_f |-> RoundTemp(high.f500),
               average_wind_mph |-> RoundDiv(wind, n * 1000000),
               average_hfi |-> RoundDiv(hfi, n),
               intervals_analyzed |-> n]]

\* for interval in intervals: key, hgetall, the empty check, the coercion
SummaryFetch ==
    /\ pc = "loop"
    /\ path = "summary"
    /\ idx <= Len(intervals)
    /\ interval' = intervals[idx]
    /\ store_reads' = Append(store_reads, Key(interval', geohash))
    /\ LET data == HGetAll(store, Key(interval', geohash))
       IN  IF DOMAIN data = {}
           THEN /\ idx' = idx + 1
                /\ UNCHANGED <<pc, forecast_data>>
           ELSE /\ forecast_data' = CoerceAll(data)
                /\ pc' = "fetched"
                /\ UNCHANGED idx
    /\ UNCHANGED <<path, args, now, store, geohash, unit, first_forecast_hour,
                   intervals, results, high_temp_f, total_wind_mph, total_hfi,
                   valid_intervals, hfi_calls, response>>

\* what lines 433-439 raise into the handler's except clause, if anything
SummaryRaises(five, out) ==
    \/ out.raised
    \/ five[1].type = "str"
    \/ five[4].type = "str"
    \/ five[5].type = "str"

\* validation, get_hfi, the conversions and the accumulation (lines 421-445);
\* an exception leaves the loop for the except clause of line 467
SummaryEvaluate ==
    /\ pc = "fetched"
    /\ path = "summary"
    /\ LET five == Required(forecast_data)
       IN  IF AnyMissing(five)
           THEN /\ idx' = idx + 1
                /\ pc' = "loop"
                /\ UNCHANGED <<high_temp_f, total_wind_mph, total_hfi,
                               valid_intervals, hfi_calls, response>>
           ELSE \E out \in GetHfiOutcomes(five[1], five[2], five[3], five[4], five[5]) :
                /\ hfi_calls' = Append(hfi_calls, HfiCall(interval, five, NoValue, out))
                /\ IF SummaryRaises(five, out)
                   THEN /\ Return(InternalError)
                        /\ UNCHANGED <<idx, high_temp_f, total_wind_mph, total_hfi,
                                       valid_intervals>>
                   ELSE /\ high_temp_f' = MaxTemp(high_temp_f, TempF(five[1]))
                        /\ total_wind_mph' = total_wind_mph + WindSpeedMph(five[4], five[5])
                        /\ total_hfi' = total_hfi + out.value
                        /\ valid_intervals' = valid_intervals + 1
                        /\ idx' = idx + 1
                        /\ pc' = "loop"
                        /\ UNCHANGED response
    /\ UNCHANGED <<path, args, now, store, store_reads, geohash, unit, first_forecast_hour,
                   intervals, interval, forecast_data, results>>

\* the 404 when nothing contributed, else the averages and the summary
SummaryReturn ==
    /\ pc = "loop"
    /\ path = "summary"
    /\ idx > Len(intervals)
    /\ IF valid_intervals = 0
       THEN Return(NotFound(geohash))
       ELSE Return(Summary(geohash, high_temp_f, total_wind_mph, total_hfi,
                           valid_intervals))
    /\ UNCHANGED <<path, args, now, store, store_reads, geohash, unit, first_forecast_hour,
                   intervals, idx, interval, forecast_data, results, high_temp_f,
                   total_wind_mph, total_hfi, valid_intervals, hfi_calls>>

(***************************************************************************)
(* Specifications                                                          *)
(***************************************************************************)
NextSchedule == DetailStart \/ SummaryStart
NextDetail == DetailStart \/ DetailFetch \/ DetailEvaluate \/ DetailReturn
NextSummary == SummaryStart \/ SummaryFetch \/ SummaryEvaluate \/ SummaryReturn
Next == NextDetail \/ NextSummary

\* the scheduler alone, at every minute of the day
SpecSchedule == InitSchedule /\ [][NextSchedule]_vars
\* one request of /wxapi/hfi-detail
SpecDetail == InitDetail /\ [][NextDetail]_vars
\* one request of /wxapi/hfi-summary
SpecSummary == InitSummary /\ [][NextSummary]_vars
Spec == Init /\ [][Next]_vars

(***************************************************************************)
(* Vocabulary of the properties                                            *)
(***************************************************************************)
\* the handler returned something other than the 400 and the 503 of its preamble
Served == pc = "done" /\ response.status \notin {400, 503}

\* the hash the store holds for the i-th scheduled interval
StoredRecord(i) == HGetAll(store, Key(intervals[i], Geohash))

RequiredSet == {"2t", "2d", "tp", "10u", "10v"}

\* the required fields the stored hash lacks
LackingFields(rec) == RequiredSet \ DOMAIN rec

\* all five required fields are present and each is the text of a number
CompleteRecord(rec) ==
    /\ RequiredSet \subseteq DOMAIN rec
    /\ \A f \in RequiredSet : FloatParses(rec[f])

\* get_hfi was called for the i-th interval, and it raised / returned
FormulaRaised(i) == \E k \in DOMAIN hfi_calls :
    hfi_calls[k].interval = intervals[i] /\ hfi_calls[k].raised
FormulaReturned(i) == \E k \in DOMAIN hfi_calls :
    hfi_calls[k].interval = intervals[i] /\ ~hfi_calls[k].raised

HourLabels ==
    <<"0h", "6h", "12h", "18h", "24h", "30h", "36h", "42h", "48h", "54h", "60h", "66h">>

MinuteOfDay == now.hour * 60 + now.minute

(***************************************************************************)
(* Properties                                                              *)
(***************************************************************************)
\* C1: a detail request that is served returns 8 entries, the i-th for the
\* i-th scheduled interval, and the entry of an interval with no hash, with a
\* missing required field, with a non-numeric required field or whose get_hfi
\* call raised is available=false.
C1_EveryIntervalAnswered ==
    (path = "detail" /\ Served) =>
        /\ response.status = 200
        /\ Len(results) = 8
        /\ \A i \in DOMAIN results :
            /\ results[i].interval = intervals[i]
            /\ (~CompleteRecord(StoredRecord(i)) \/ FormulaRaised(i))
                  => ~results[i].available

\* C2: a summary request that is served has processed all its intervals and
\* answers 200 or 404, and exactly the intervals with a complete record whose
\* get_hfi call returned have contributed: a failing formula or a non-numeric
\* required field only skips its interval.
C2_SummarySkipsFailedInterval ==
    (path = "summary" /\ Served) =>
        /\ response.status \in {200, 404}
        /\ idx = Len(intervals) + 1
        /\ valid_intervals =
             Cardinality({i \in DOMAIN intervals :
                            CompleteRecord(StoredRecord(i)) /\ FormulaReturned(i)})

\* C3: the anchor is the smallest multiple of 6 that is >= the hour of day, in
\* both handlers; on a boundary it is the boundary, one minute later the next.
C3_AnchorIsCeiling ==
    pc = "loop" =>
        /\ first_forecast_hour % 6 = 0
        /\ first_forecast_hour * 60 >= MinuteOfDay
        /\ (first_forecast_hour - 6) * 60 < MinuteOfDay
        /\ (now.hour % 6 = 0 /\ now.minute = 0) => first_forecast_hour = now.hour
        /\ (now.hour % 6 = 0 /\ now.minute = 1) => first_forecast_hour = now.hour + 6

C3_Witness ==
    /\ pc = "loop"
    /\ path = "summary"
    /\ now = [hour |-> 6, minute |-> 1]
    /\ first_forecast_hour = 12

\* C4: the schedule holds 8 labels in calculate_hfi and 4 in hfi_summary, the
\* i-th (from 0) being the label of anchor + 6*i hours.
C4_LabelsSpacedByCadence ==
    pc = "loop" =>
        /\ Len(intervals) = (IF path = "detail" THEN 8 ELSE 4)
        /\ \A i \in DOMAIN intervals :
              intervals[i] = HourLabels[(first_forecast_hour \div 6) + i]

C4_Witness ==
    /\ pc = "loop"
    /\ path = "detail"
    /\ intervals = <<"24h", "30h", "36h", "42h", "48h", "54h", "60h", "66h">>

\* C5: the anchor is one of 0, 6, 12, 18, 24; after 18:00 the first label is
\* "24h"; "0h" is the first label only at 00:00.
C5_AnchorClampedTo24 ==
    pc = "loop" =>
        /\ first_forecast_hour \in {0, 6, 12, 18, 24}
        /\ MinuteOfDay > 18 * 60 => intervals[1] = "24h"
        /\ intervals[1] = "0h" => MinuteOfDay = 0

C5_Witness ==
    /\ pc = "loop"
    /\ now = [hour |-> 23, minute |-> 59]
    /\ intervals[1] = "24h"

\* C6: an entry of the detail list is available=true only if the stored hash
\* holds all five required fields and each of them is the text of a number.
C6_AvailableOnlyIfNumeric ==
    path = "detail" =>
        \A i \in DOMAIN results :
            results[i].available => CompleteRecord(StoredRecord(i))

\* C7: a served summary request answers 404 exactly when no interval
\* contributed; a summary reports 1..4 intervals; the contribution counter
\* never exceeds the number of intervals processed so far.
C7_NotFoundIffNothingContributed ==
    path = "summary" =>
        /\ valid_intervals <= (IF idx = 0 THEN 0 ELSE idx - 1)
        /\ Served =>
            /\ response.status = 404 <=> valid_intervals = 0
            /\ response.status = 200 =>
                   /\ response.body.intervals_analyzed >= 1
                   /\ response.body.intervals_analyzed <= 4

\* C8: with k of the 4 scheduled intervals holding a complete record, a served
\* summary request answers 404 when k = 0 and else a summary with
\* intervals_analyzed = k.
C8_AnalyzedCountsCompleteRecords ==
    (path = "summary" /\ Served) =>
        LET k == Cardinality({i \in DOMAIN intervals : CompleteRecord(StoredRecord(i))})
        IN  IF k = 0
            THEN response.status = 404
            ELSE /\ response.status = 200
                 /\ response.body.intervals_analyzed = k

\* C9: the entry of an interval whose stored hash is not empty but lacks
\* required fields is available=false and its message is "Missing parameters: "
\* followed by the names of exactly the lacking fields, in field order; that
\* message is neither the no-data message nor an error message.
C9_MissingFieldsNamed ==
    path = "detail" =>
        \A i \in DOMAIN results :
            LET rec == StoredRecord(i)
            IN  (DOMAIN rec # {} /\ LackingFields(rec) # {}) =>
                    /\ ~results[i].available
                    /\ results[i].message =
                         "Missing parameters: " \o
                         JoinComma([k \in DOMAIN SelectInOrder(RequiredFields, LackingFields(rec))
                                      |-> ParamName(SelectInOrder(RequiredFields, LackingFields(rec))[k])])
                    /\ results[i].message # NoDataMessage(intervals[i])
                    /\ results[i].message \notin
                         {ErrorMessage(e) : e \in {"get_hfi failed", SubTypeError, PowTypeError}}

C9_Witness ==
    /\ path = "detail"
    /\ pc = "done"
    /\ \E i \in DOMAIN results :
          /\ DOMAIN StoredRecord(i) = {"2t", "2d", "10u"}
          /\ results[i].message = "Missing parameters: tp (precipitation), 10v (wind v component)"

\* C10: every get_hfi call of a detail request is handed the request's unit.
C10_UnitForwarded ==
    path = "detail" =>
        \A k \in DOMAIN hfi_calls : hfi_calls[k].unit = unit

\* C11: a served request reads the store once per scheduled interval, in
\* schedule order, under the key "<label>:<cell>"; the read of the k-th key
\* is made at the top of the loop with the k - 1 earlier intervals processed;
\* no step of the request changes the store.
C11_ReadsOncePerIntervalInOrder ==
    [][ /\ store' = store
        /\ \A k \in DOMAIN store_reads' :
              store_reads'[k] =
                  HourLabels[(first_forecast_hour' \div 6) + k] \o ":u4pruydqqvj"
        /\ store_reads' # store_reads =>
              /\ pc = "loop"
              /\ idx = Len(store_reads) + 1
              /\ Len(store_reads') = idx
              /\ path = "detail" => Len(results) = idx - 1
        /\ Served' => Len(store_reads') = (IF path = "detail" THEN 8 ELSE 4)
      ]_vars

====
